---- MODULE Spec2Model ----
(***************************************************************************)
(* Model of the MAILAZ mail relay: the send handler built by               *)
(* createSendHandler in src/src/server.js ("server") and its later variant *)
(* in src/unnamed/part_001 ("part001").  A request is validated by the     *)
(* route schema, then the handler runs; every action below is one          *)
(* synchronous segment of the async handler, from one await to the next.   *)
(* The mail transport (nodemailer) and the template engine (Handlebars)    *)
(* are the environment: a sendMail promise settles fulfilled or rejected,  *)
(* compiling or rendering raw HTML returns or throws.                      *)
(***************************************************************************)
EXTENDS Integers, Sequences, FiniteSets, Bags, TLC

VARIABLES
    req,      \* req[q]: the endpoint and the JSON body of request q (input)
    pc,       \* pc[q]: where the handler of request q is suspended
    idx,      \* idx[q]: index of the loop iteration (0-based, as in the code)
    ok,       \* ok[q]: the handler's local ok array
    fail,     \* fail[q]: the handler's local fail array
    reply,    \* reply[q]: the HTTP responses sent for request q, in order
    calls,    \* every transporter.sendMail call made so far, in call order
    clock,    \* Date.now(), in milliseconds
    startTime,\* startTime[q]: Date.now() taken by the handler
    wake,     \* wake[q]: when the pending sleep() timer of request q fires
    trace     \* observation: the sleeps, sends and settlements, in order

vars == <<req, pc, idx, ok, fail, reply, calls, clock, startTime, wake, trace>>

-----------------------------------------------------------------------------
(* Bounds of the model *)

MaxRecipients == 3

-----------------------------------------------------------------------------
(* Data *)

ReqIds == {1, 2}

Variants == {"server", "part001"}

Undefined == "undefined"

\* JavaScript truthiness of a string-or-undefined value
Truthy(s) == s # Undefined /\ s # ""

Keys == {"email", "name", "city"}

\* Recipients as the Recipient schema admits them: email, optional name
Alice == [email |-> "a@x.io", name |-> Undefined, city |-> Undefined]
Bob == [email |-> "b@x.io", name |-> "Bob", city |-> Undefined]

RecipientPool == {Alice, Bob}

EmptyContext == [k \in Keys |-> Undefined]

GlobalContext == [email |-> Undefined, name |-> "Team", city |-> "Oslo"]

HtmlSource == "Hi {{name}} from {{city}}"

\* An html text without placeholders
PlainHtml == "<p>Hello</p>"

Opt(present, v) == [has |-> present, v |-> v]

\* delaySeconds as requests give it: none, or two seconds
DelayChoices == {0, 2}

RecipientLists == UNION {[1..n -> RecipientPool] : n \in 0..MaxRecipients}

Bodies ==
    [recipients : RecipientLists,
     template : {Opt(FALSE, Undefined), Opt(TRUE, "welcome")},
     html : {Opt(FALSE, Undefined), Opt(TRUE, ""), Opt(TRUE, HtmlSource)},
     context : {Opt(FALSE, EmptyContext), Opt(TRUE, GlobalContext)},
     individual : {Opt(FALSE, FALSE), Opt(TRUE, FALSE), Opt(TRUE, TRUE)},
     delaySeconds : {Opt(FALSE, 0)} \cup {Opt(TRUE, d) : d \in DelayChoices}]

Requests == [variant : Variants, configured : BOOLEAN, body : Bodies]

\* Requests to Bob alone whose html, when given, is empty or has no placeholder
PlainRequests ==
    [variant : Variants, configured : BOOLEAN,
     body : [recipients : UNION {[1..n -> {Bob}] : n \in 0..MaxRecipients},
             template : {Opt(FALSE, Undefined), Opt(TRUE, "welcome")},
             html : {Opt(FALSE, Undefined), Opt(TRUE, ""), Opt(TRUE, PlainHtml)},
             context : {Opt(FALSE, EmptyContext), Opt(TRUE, GlobalContext)},
             individual : {Opt(FALSE, FALSE), Opt(TRUE, FALSE), Opt(TRUE, TRUE)},
             delaySeconds : {Opt(FALSE, 0)} \cup {Opt(TRUE, d) : d \in DelayChoices}]]

NoRequest ==
    [variant |-> "server", configured |-> FALSE,
     body |-> [recipients |-> <<>>, template |-> Opt(FALSE, Undefined),
               html |-> Opt(FALSE, Undefined), context |-> Opt(FALSE, EmptyContext),
               individual |-> Opt(FALSE, FALSE), delaySeconds |-> Opt(FALSE, 0)]]

-----------------------------------------------------------------------------
(* The request as the handler destructures it *)

Variant(q) == req[q].variant

recipients(q) == req[q].body.recipients

N(q) == Len(recipients(q))

template(q) == IF req[q].body.template.has THEN req[q].body.template.v ELSE Undefined

html(q) == IF req[q].body.html.has THEN req[q].body.html.v ELSE Undefined

context(q) == IF req[q].body.context.has THEN req[q].body.context.v ELSE EmptyContext

\* Faulty variant: an omitted individual counts as true in both variants
individual_DefaultTrue(q) ==
    IF req[q].body.individual.has THEN req[q].body.individual.v ELSE TRUE

individual(q) ==
    IF req[q].body.individual.has THEN req[q].body.individual.v
    ELSE Variant(q) = "part001"

delaySeconds(q) ==
    IF req[q].body.delaySeconds.has THEN req[q].body.delaySeconds.v ELSE 0

\* Faulty variant: the schema without minItems
SchemaValid_NoMinItems(q) ==
    Variant(q) = "server" => (req[q].body.template.has \/ req[q].body.html.has)

\* The route's body schema, checked by the framework before the handler runs
SchemaValid(q) ==
    /\ N(q) >= 1
    /\ Variant(q) = "server" => (req[q].body.template.has \/ req[q].body.html.has)

-----------------------------------------------------------------------------
(* Formatting, merging and rendering *)

\* fmt: "Name" <email>, or the bare email when the name is missing or empty
fmt(r) ==
    IF Truthy(r.name) THEN <<"\"", r.name, "\" <", r.email, ">">> ELSE <<r.email>>

RECURSIVE JoinFrom(_, _)
JoinFrom(rs, i) ==
    IF i > Len(rs) THEN <<>>
    ELSE IF i = Len(rs) THEN fmt(rs[i])
    ELSE fmt(rs[i]) \o <<", ">> \o JoinFrom(rs, i + 1)

\* Faulty variant: the join starts at the second recipient
bccList_SkipFirst(rs) == JoinFrom(rs, 2)

\* recipients.map(fmt).join(", ")
bccList(rs) == JoinFrom(rs, 1)

\* { ...context, ...r }: every own key of r replaces the key of context
Merge(c, r) == [k \in Keys |-> IF r[k] # Undefined THEN r[k] ELSE c[k]]

\* The Handlebars program of a source text: literal text and {{key}} placeholders
Tokens(h) ==
    IF h = HtmlSource
    THEN <<[ph |-> FALSE, s |-> "Hi "], [ph |-> TRUE, s |-> "name"],
           [ph |-> FALSE, s |-> " from "], [ph |-> TRUE, s |-> "city"]>>
    ELSE IF h = "" THEN <<>>
    ELSE <<[ph |-> FALSE, s |-> h]>>

\* The compiled template applied to a context: an unbound placeholder renders empty
Render(h, ctx) ==
    [i \in 1..Len(Tokens(h)) |->
        IF Tokens(h)[i].ph
        THEN (IF ctx[Tokens(h)[i].s] = Undefined THEN "" ELSE ctx[Tokens(h)[i].s])
        ELSE Tokens(h)[i].s]

\* The text handed over unrendered
Raw(h) == <<h>>

-----------------------------------------------------------------------------
(* Mail options handed to transporter.sendMail *)

Mail(fields, to, bcc, tpl, ctx, body, text) ==
    [fields |-> fields, to |-> to, bcc |-> bcc, template |-> tpl,
     context |-> ctx, html |-> body, text |-> text]

\* Faulty variant: the html takes precedence over the template
DelayedMessage_HtmlFirst(q, r) ==
    IF ~Truthy(html(q))
    THEN Mail({"to", "template", "context"}, fmt(r), <<>>, template(q),
              Merge(context(q), r), <<>>, Undefined)
    ELSE Mail({"to", "html"}, fmt(r), <<>>, Undefined, EmptyContext,
              Render(html(q), r), Undefined)

\* server.js, delayed loop: template with merged context, else html rendered on r
DelayedMessage(q, r) ==
    IF Truthy(template(q))
    THEN Mail({"to", "template", "context"}, fmt(r), <<>>, template(q),
              Merge(context(q), r), <<>>, Undefined)
    ELSE Mail({"to", "html"}, fmt(r), <<>>, Undefined, EmptyContext,
              Render(html(q), r), Undefined)

\* Faulty variant: every message of the fan-out is addressed to the whole list
ParallelMessage_ToEveryone(q, r) ==
    IF Truthy(template(q))
    THEN Mail({"to", "template", "context"}, bccList(recipients(q)), <<>>,
              template(q), context(q), <<>>, Undefined)
    ELSE Mail({"to", "html"}, bccList(recipients(q)), <<>>, Undefined, EmptyContext,
              Raw(html(q)), Undefined)

\* server.js, parallel branch: template with the request's context, else the html
ParallelMessage(q, r) ==
    IF Truthy(template(q))
    THEN Mail({"to", "template", "context"}, fmt(r), <<>>, template(q),
              context(q), <<>>, Undefined)
    ELSE Mail({"to", "html"}, fmt(r), <<>>, Undefined, EmptyContext,
              Raw(html(q)), Undefined)

\* Faulty variant: the first recipient's fields are merged into the shared content
BccMessage_MergesFirstRecipient(q) ==
    IF Truthy(template(q))
    THEN Mail({"bcc", "template", "context"}, <<>>, bccList(recipients(q)),
              template(q), Merge(context(q), recipients(q)[1]), <<>>, Undefined)
    ELSE Mail({"bcc", "html"}, <<>>, bccList(recipients(q)), Undefined,
              EmptyContext, Render(html(q), recipients(q)[1]), Undefined)

\* server.js, BCC branch
BccMessage(q) ==
    IF Truthy(template(q))
    THEN Mail({"bcc", "template", "context"}, <<>>, bccList(recipients(q)),
              template(q), context(q), <<>>, Undefined)
    ELSE Mail({"bcc", "html"}, <<>>, bccList(recipients(q)), Undefined,
              EmptyContext, Raw(html(q)), Undefined)

\* part_001, loop: combinedContext for the template or for the compiled html
DynamicMessage(q, r) ==
    IF Truthy(template(q))
    THEN Mail({"to", "template", "context"}, fmt(r), <<>>, template(q),
              Merge(context(q), r), <<>>, Undefined)
    ELSE IF Truthy(html(q))
    THEN Mail({"to", "html"}, fmt(r), <<>>, Undefined, EmptyContext,
              Render(html(q), Merge(context(q), r)), Undefined)
    ELSE Mail({"to", "text"}, fmt(r), <<>>, Undefined, EmptyContext, <<>>,
              "No content provided.")

\* part_001, BCC branch: html, template and context are all passed as they are
BulkMessage(q) ==
    Mail({"bcc", "context"}
            \cup (IF html(q) # Undefined THEN {"html"} ELSE {})
            \cup (IF template(q) # Undefined THEN {"template"} ELSE {}),
         <<>>, bccList(recipients(q)), template(q), context(q),
         IF html(q) # Undefined THEN Raw(html(q)) ELSE <<>>, Undefined)

-----------------------------------------------------------------------------
(* The handler's decisions *)

\* Faulty variant: the individual flag is tested before the delay
SelectMode_IndividualFirst(q) ==
    IF individual(q) THEN "individual"
    ELSE IF delaySeconds(q) > 0 THEN "individual_delayed"
    ELSE "bcc"

\* server.js: if (individual || delaySeconds > 0) { if (delaySeconds > 0) ... }
SelectMode(q) ==
    IF individual(q) \/ delaySeconds(q) > 0
    THEN (IF delaySeconds(q) > 0 THEN "individual_delayed" ELSE "individual")
    ELSE "bcc"

\* Faulty variant: the html compiler is not part of the test
DynamicMode_FlagsOnly(q) ==
    IF individual(q) \/ delaySeconds(q) > 0
    THEN "individual_dynamic"
    ELSE "bcc_bulk"

\* part_001: if (individual || delaySeconds > 0 || htmlCompiler)
DynamicMode(q) ==
    IF individual(q) \/ delaySeconds(q) > 0 \/ Truthy(html(q))
    THEN "individual_dynamic"
    ELSE "bcc_bulk"

\* Faulty variant: no content check in the handler
Accepted_NoContentCheck(q) ==
    /\ SchemaValid(q)
    /\ req[q].configured

\* The request passes the schema, the transporter check and the content check
Accepted(q) ==
    /\ SchemaValid(q)
    /\ req[q].configured
    /\ Variant(q) = "server" => (Truthy(template(q)) \/ Truthy(html(q)))

\* The handler compiles the raw html before dispatching
Compiles(q) ==
    /\ Truthy(html(q))
    /\ Variant(q) = "server" => SelectMode(q) # "bcc"

\* The request goes through the sequential per-recipient loop
Loops(q) ==
    IF Variant(q) = "server" THEN SelectMode(q) = "individual_delayed"
    ELSE DynamicMode(q) = "individual_dynamic"

\* Faulty variant: the wait happens once, before the second recipient only
SleepBefore_OnlyOnce(q, i) ==
    IF Variant(q) = "server" THEN i = 1 ELSE i = 1 /\ delaySeconds(q) > 0

\* The wait at the top of iteration i (0-based)
SleepBefore(q, i) ==
    IF Variant(q) = "server" THEN i > 0 ELSE i > 0 /\ delaySeconds(q) > 0

\* The try block of an iteration applies the compiled html
RendersHtml(q) ==
    IF Variant(q) = "server" THEN Truthy(html(q))
    ELSE ~Truthy(template(q)) /\ Truthy(html(q))

LoopMessage(q, r) ==
    IF Variant(q) = "server" THEN DelayedMessage(q, r) ELSE DynamicMessage(q, r)

-----------------------------------------------------------------------------
(* Responses and outcome entries *)

Response(status, error, mode, okq, failq, totalSent, duration, messageId) ==
    [status |-> status, error |-> error, mode |-> mode, ok |-> okq, fail |-> failq,
     totalSent |-> totalSent, durationSeconds |-> duration, messageId |-> messageId]

ErrorResponse(status, error) ==
    Response(status, error, Undefined, <<>>, <<>>, -1, -1, 0)

OkEntry(r, messageId, status) ==
    [recipient |-> r.email, messageId |-> messageId, status |-> status]

FailEntry(r, message) == [recipient |-> r.email, error |-> message]

Event(ev, q, i, c) == [ev |-> ev, req |-> q, idx |-> i, call |-> c]

\* Faulty variant: an error answer when no send succeeded
LoopReply_ErrorWhenNoneSent(q, okq, failq, start, now) ==
    IF okq = <<>>
    THEN Response(500, "EMAIL_SEND_FAILED", Undefined, <<>>, <<>>, -1, -1, 0)
    ELSE Response(IF Variant(q) = "server" THEN 207 ELSE 200, Undefined,
                  IF Variant(q) = "server" THEN "individual_delayed"
                  ELSE "individual_dynamic",
                  okq, failq, Len(okq), (now - start) \div 1000, 0)

\* The reply after the sequential loop
LoopReply(q, okq, failq, start, now) ==
    IF Variant(q) = "server"
    THEN Response(207, Undefined, "individual_delayed", okq, failq, Len(okq),
                  (now - start) \div 1000, 0)
    ELSE Response(200, Undefined, "individual_dynamic", okq, failq, Len(okq),
                  (now - start) \div 1000, 0)

-----------------------------------------------------------------------------
(* The sequential loop, run from a given point up to its next await *)

\* The render outcomes the engine may produce from iteration i on, up to the
\* first render that returns: the next k renders throw
RenderOutcomes(q, i) ==
    IF RendersHtml(q)
    THEN {[j \in 0..(N(q) - 1) |-> j < i \/ j >= i + k] : k \in 0..(N(q) - i)}
    ELSE {[j \in 0..(N(q) - 1) |-> TRUE]}

RECURSIVE TryBlock(_, _, _, _, _)
RECURSIVE LoopTop(_, _, _, _, _)

\* Faulty variant: the message of an iteration is handed to the transport twice
TryBlock_SendsTwice(q, i, ro, failq, evs) ==
    IF RendersHtml(q) /\ ~ro[i]
    THEN LoopTop(q, i + 1, ro,
                 Append(failq, FailEntry(recipients(q)[i + 1], "render")),
                 Append(evs, Event("threw", q, i, 0)))
    ELSE [pc |-> "sending", idx |-> i, fail |-> failq,
          send |-> <<[idx |-> i, msg |-> LoopMessage(q, recipients(q)[i + 1])],
                     [idx |-> i, msg |-> LoopMessage(q, recipients(q)[i + 1])]>>,
          evs |-> Append(evs, Event("send", q, i, Len(calls) + 1))]

\* try { render; await sendMail(...) } catch { fail.push(...) } of iteration i
TryBlock(q, i, ro, failq, evs) ==
    IF RendersHtml(q) /\ ~ro[i]
    THEN LoopTop(q, i + 1, ro,
                 Append(failq, FailEntry(recipients(q)[i + 1], "render")),
                 Append(evs, Event("threw", q, i, 0)))
    ELSE [pc |-> "sending", idx |-> i, fail |-> failq,
          send |-> <<[idx |-> i, msg |-> LoopMessage(q, recipients(q)[i + 1])]>>,
          evs |-> Append(evs, Event("send", q, i, Len(calls) + 1))]

\* Faulty variant: the loop ends one recipient short
LoopTop_OffByOne(q, i, ro, failq, evs) ==
    IF i >= N(q) - 1
    THEN [pc |-> "done", idx |-> i, fail |-> failq, send |-> <<>>, evs |-> evs]
    ELSE IF SleepBefore(q, i)
    THEN [pc |-> "sleeping", idx |-> i, fail |-> failq, send |-> <<>>, evs |-> evs]
    ELSE TryBlock(q, i, ro, failq, evs)

\* Faulty variant: the loop ends at the first failure
LoopTop_StopAtFailure(q, i, ro, failq, evs) ==
    IF i >= N(q) \/ failq # <<>>
    THEN [pc |-> "done", idx |-> i, fail |-> failq, send |-> <<>>, evs |-> evs]
    ELSE IF SleepBefore(q, i)
    THEN [pc |-> "sleeping", idx |-> i, fail |-> failq, send |-> <<>>, evs |-> evs]
    ELSE TryBlock(q, i, ro, failq, evs)

\* for (const [i, r] of recipients.entries()) { if (...) await sleep(...); ... }
LoopTop(q, i, ro, failq, evs) ==
    IF i >= N(q)
    THEN [pc |-> "done", idx |-> i, fail |-> failq, send |-> <<>>, evs |-> evs]
    ELSE IF SleepBefore(q, i)
    THEN [pc |-> "sleeping", idx |-> i, fail |-> failq, send |-> <<>>, evs |-> evs]
    ELSE TryBlock(q, i, ro, failq, evs)

\* A sendMail call of request q for the recipient at index i, not yet settled
Pending(q, i, m) == [req |-> q, idx |-> i, msg |-> m, status |-> "pending"]

\* Faulty variant: one ok array and one fail array for all requests
Suspend_SharedArrays(q, s, okq, log, start, now) ==
    /\ pc' = [pc EXCEPT ![q] = s.pc]
    /\ idx' = [idx EXCEPT ![q] = s.idx]
    /\ ok' = [x \in ReqIds |-> IF x = q THEN okq ELSE ok[x] \o okq]
    /\ fail' = [x \in ReqIds |-> IF x = q THEN s.fail ELSE fail[x] \o s.fail]
    /\ calls' = log \o [i \in 1..Len(s.send) |->
                           Pending(q, s.send[i].idx, s.send[i].msg)]
    /\ startTime' = [startTime EXCEPT ![q] = start]
    /\ wake' = IF s.pc = "sleeping"
               THEN [wake EXCEPT ![q] = now + delaySeconds(q) * 1000]
               ELSE wake
    /\ reply' = IF s.pc = "done"
                THEN [reply EXCEPT ![q] = Append(@, LoopReply(q, okq, s.fail, start, now))]
                ELSE reply
    /\ trace' = trace \o s.evs

\* The handler of q, started at start, reaches local state s with ok array okq at
\* now; log holds the calls made before
Suspend(q, s, okq, log, start, now) ==
    /\ pc' = [pc EXCEPT ![q] = s.pc]
    /\ idx' = [idx EXCEPT ![q] = s.idx]
    /\ ok' = [ok EXCEPT ![q] = okq]
    /\ fail' = [fail EXCEPT ![q] = s.fail]
    /\ calls' = log \o [i \in 1..Len(s.send) |->
                           Pending(q, s.send[i].idx, s.send[i].msg)]
    /\ startTime' = [startTime EXCEPT ![q] = start]
    /\ wake' = IF s.pc = "sleeping"
               THEN [wake EXCEPT ![q] = now + delaySeconds(q) * 1000]
               ELSE wake
    /\ reply' = IF s.pc = "done"
                THEN [reply EXCEPT ![q] = Append(@, LoopReply(q, okq, s.fail, start, now))]
                ELSE reply
    /\ trace' = trace \o s.evs

\* The calls of request q, in call order
CallIds(q) == SelectSeq([c \in 1..Len(calls) |-> c], LAMBDA c : calls[c].req = q)

Finish(q, r) ==
    /\ pc' = [pc EXCEPT ![q] = "done"]
    /\ reply' = [reply EXCEPT ![q] = Append(@, r)]

-----------------------------------------------------------------------------
(* Initial states *)

Idle ==
    /\ idx = [q \in ReqIds |-> 0]
    /\ ok = [q \in ReqIds |-> <<>>]
    /\ fail = [q \in ReqIds |-> <<>>]
    /\ reply = [q \in ReqIds |-> <<>>]
    /\ calls = <<>>
    /\ clock = 0
    /\ startTime = [q \in ReqIds |-> 0]
    /\ wake = [q \in ReqIds |-> 0]
    /\ trace = <<>>

\* One request has arrived
Init ==
    /\ \E r \in Requests : req = [q \in ReqIds |-> IF q = 1 THEN r ELSE NoRequest]
    /\ pc = [q \in ReqIds |-> IF q = 1 THEN "received" ELSE "unused"]
    /\ Idle

-----------------------------------------------------------------------------
(* Rejections *)

\* The body fails the route schema: the framework answers 400, no handler runs
ValidationError(q) ==
    /\ pc[q] = "received"
    /\ ~SchemaValid(q)
    /\ Finish(q, ErrorResponse(400, "FST_ERR_VALIDATION"))
    /\ UNCHANGED <<req, idx, ok, fail, calls, clock, startTime, wake, trace>>

\* if (!transporterInstance) return reply.code(500)...
ConfigurationError(q) ==
    /\ pc[q] = "received"
    /\ SchemaValid(q)
    /\ ~req[q].configured
    /\ Finish(q, ErrorResponse(500, IF Variant(q) = "server"
                                    THEN "CONFIGURATION_ERROR" ELSE "CONFIG_ERROR"))
    /\ UNCHANGED <<req, idx, ok, fail, calls, clock, startTime, wake, trace>>

\* Faulty variant: the content check comes before the transporter check
BadRequest_BeforeTransporterCheck(q) ==
    /\ pc[q] = "received"
    /\ SchemaValid(q)
    /\ Variant(q) = "server"
    /\ ~Truthy(template(q)) /\ ~Truthy(html(q))
    /\ Finish(q, ErrorResponse(400, "BAD_REQUEST"))
    /\ UNCHANGED <<req, idx, ok, fail, calls, clock, startTime, wake, trace>>

\* server.js: if (!template && !html) return reply.code(400)...
BadRequest(q) ==
    /\ pc[q] = "received"
    /\ SchemaValid(q)
    /\ req[q].configured
    /\ Variant(q) = "server"
    /\ ~Truthy(template(q)) /\ ~Truthy(html(q))
    /\ Finish(q, ErrorResponse(400, "BAD_REQUEST"))
    /\ UNCHANGED <<req, idx, ok, fail, calls, clock, startTime, wake, trace>>

\* Compiling the raw html throws: the outer catch of server.js answers 500,
\* the try around handlebars.compile of part_001 answers 400
CompileError(q) ==
    /\ pc[q] = "received"
    /\ Accepted(q)
    /\ Compiles(q)
    /\ Finish(q, IF Variant(q) = "server"
                 THEN ErrorResponse(500, "EMAIL_SEND_FAILED")
                 ELSE ErrorResponse(400, "HTML_ERROR"))
    /\ UNCHANGED <<req, idx, ok, fail, calls, clock, wake, trace>>
    /\ startTime' = IF Variant(q) = "server"
                    THEN [startTime EXCEPT ![q] = clock] ELSE startTime

-----------------------------------------------------------------------------
(* Dispatch *)

Max(a, b) == IF a >= b THEN a ELSE b

\* The sequential loop starts: server.js with delaySeconds > 0, part_001 whenever
\* individual, delaySeconds > 0 or compiled html
StartLoop(q) ==
    /\ pc[q] = "received"
    /\ Accepted(q)
    /\ Loops(q)
    /\ \E ro \in RenderOutcomes(q, 0) :
          Suspend(q, LoopTop(q, 0, ro, <<>>, <<>>), <<>>, calls, clock, clock)
    /\ UNCHANGED <<req, clock>>

\* The sleep() timer of request q fires and the iteration goes on
SleepDone(q) ==
    /\ pc[q] = "sleeping"
    /\ clock' = Max(clock, wake[q])
    /\ \E ro \in RenderOutcomes(q, idx[q]) :
          Suspend(q, TryBlock(q, idx[q], ro, fail[q],
                              <<Event("slept", q, idx[q], 0)>>),
                  ok[q], calls, startTime[q], clock')
    /\ UNCHANGED req

\* The outcomes of a sendMail promise
Outcomes == {"fulfilled", "rejected"}

\* One of the sendMail promises that Promise.allSettled waits for settles
TransportSettles(c) ==
    /\ c \in 1..Len(calls)
    /\ calls[c].status = "pending"
    /\ pc[calls[c].req] = "awaitAll"
    /\ \E outcome \in Outcomes :
          calls' = [calls EXCEPT ![c].status = outcome]
    /\ trace' = Append(trace, Event("settled", calls[c].req, calls[c].idx, c))
    /\ UNCHANGED <<req, pc, idx, ok, fail, reply, clock, startTime, wake>>

LastCall(q) == CallIds(q)[Len(CallIds(q))]

\* await sendMail returns or throws in the loop: ok.push or fail.push, next iteration
SendReturned(q) ==
    /\ pc[q] = "sending"
    /\ calls[LastCall(q)].status = "pending"
    /\ \E outcome \in Outcomes :
          LET c == LastCall(q)
              r == recipients(q)[idx[q] + 1]
              okq == IF outcome = "fulfilled"
                     THEN Append(ok[q], OkEntry(r, c, IF Variant(q) = "server"
                                                      THEN Undefined ELSE "sent"))
                     ELSE ok[q]
              failq == IF outcome = "rejected"
                       THEN Append(fail[q], FailEntry(r, "smtp"))
                       ELSE fail[q]
              settled == [calls EXCEPT ![c].status = outcome]
          IN \E ro \in RenderOutcomes(q, idx[q] + 1) :
                Suspend(q, LoopTop(q, idx[q] + 1, ro, failq,
                                   <<Event("settled", q, idx[q], c)>>),
                        okq, settled, startTime[q], clock)
    /\ UNCHANGED <<req, clock>>

\* server.js, individual without delay: recipients.map(r => sendMail(...))
StartParallel(q) ==
    /\ pc[q] = "received"
    /\ Accepted(q)
    /\ Variant(q) = "server"
    /\ SelectMode(q) = "individual"
    /\ pc' = [pc EXCEPT ![q] = "awaitAll"]
    /\ startTime' = [startTime EXCEPT ![q] = clock]
    /\ calls' = calls \o [i \in 1..N(q) |->
                            Pending(q, i - 1, ParallelMessage(q, recipients(q)[i]))]
    /\ trace' = trace \o [i \in 1..N(q) |-> Event("send", q, i - 1, Len(calls) + i)]
    /\ UNCHANGED <<req, idx, ok, fail, reply, clock, wake>>

\* Faulty variant: the fulfilled results in the order they settled
Fulfilled_ByCompletion(q) ==
    LET won == SelectSeq(trace, LAMBDA e : /\ e.ev = "settled" /\ e.req = q
                                          /\ calls[e.call].status = "fulfilled")
    IN [i \in 1..Len(won) |->
          OkEntry(recipients(q)[won[i].idx + 1], won[i].call, Undefined)]

\* Faulty variant: the target is looked up by the position in the ok list
Fulfilled_TargetByPosition(q) ==
    LET ids == CallIds(q)
        won == SelectSeq(ids, LAMBDA c : calls[c].status = "fulfilled")
    IN [i \in 1..Len(won) |-> OkEntry(recipients(q)[i], won[i], Undefined)]

\* results.forEach((res, idx) => ...): the fulfilled results, by index
Fulfilled(q) ==
    LET ids == CallIds(q)
        won == SelectSeq(ids, LAMBDA c : calls[c].status = "fulfilled")
    IN [i \in 1..Len(won) |->
          OkEntry(recipients(q)[calls[won[i]].idx + 1], won[i], Undefined)]

\* Faulty variant: only a rejected first send is reported
Rejected_FirstOnly(q) ==
    LET ids == CallIds(q)
        lost == SelectSeq(ids, LAMBDA c : calls[c].status = "rejected"
                                          /\ calls[c].idx = 0)
    IN [i \in 1..Len(lost) |->
          FailEntry(recipients(q)[calls[lost[i]].idx + 1], "smtp")]

\* results.forEach((res, idx) => ...): the rejected results, by index
Rejected(q) ==
    LET ids == CallIds(q)
        lost == SelectSeq(ids, LAMBDA c : calls[c].status = "rejected")
    IN [i \in 1..Len(lost) |->
          FailEntry(recipients(q)[calls[lost[i]].idx + 1], "smtp")]

\* Faulty variant: the reply is sent as soon as one send has settled
AllSettled_AfterFirst(q) ==
    /\ pc[q] = "awaitAll"
    /\ \E i \in 1..Len(CallIds(q)) : calls[CallIds(q)[i]].status # "pending"
    /\ ok' = [ok EXCEPT ![q] = Fulfilled(q)]
    /\ fail' = [fail EXCEPT ![q] = Rejected(q)]
    /\ Finish(q, Response(207, Undefined, "individual", Fulfilled(q), Rejected(q),
                          -1, -1, 0))
    /\ UNCHANGED <<req, idx, calls, clock, startTime, wake, trace>>

\* Faulty variant: the reply is sent only when every send was fulfilled
AllSettled_OnlyWhenAllFulfilled(q) ==
    /\ pc[q] = "awaitAll"
    /\ \A i \in 1..Len(CallIds(q)) : calls[CallIds(q)[i]].status = "fulfilled"
    /\ ok' = [ok EXCEPT ![q] = Fulfilled(q)]
    /\ fail' = [fail EXCEPT ![q] = Rejected(q)]
    /\ Finish(q, Response(207, Undefined, "individual", Fulfilled(q), Rejected(q),
                          -1, -1, 0))
    /\ UNCHANGED <<req, idx, calls, clock, startTime, wake, trace>>

\* Promise.allSettled resolves: the results are sorted into ok and fail, reply 207
AllSettled(q) ==
    /\ pc[q] = "awaitAll"
    /\ \A i \in 1..Len(CallIds(q)) : calls[CallIds(q)[i]].status # "pending"
    /\ ok' = [ok EXCEPT ![q] = Fulfilled(q)]
    /\ fail' = [fail EXCEPT ![q] = Rejected(q)]
    /\ Finish(q, Response(207, Undefined, "individual", Fulfilled(q), Rejected(q),
                          -1, -1, 0))
    /\ UNCHANGED <<req, idx, calls, clock, startTime, wake, trace>>

\* The single BCC message is handed to the transport
StartBcc(q) ==
    /\ pc[q] = "received"
    /\ Accepted(q)
    /\ IF Variant(q) = "server" THEN SelectMode(q) = "bcc"
       ELSE DynamicMode(q) = "bcc_bulk"
    /\ pc' = [pc EXCEPT ![q] = "awaitBcc"]
    /\ calls' = Append(calls, Pending(q, -1, IF Variant(q) = "server"
                                             THEN BccMessage(q) ELSE BulkMessage(q)))
    /\ startTime' = IF Variant(q) = "server" THEN startTime
                    ELSE [startTime EXCEPT ![q] = clock]
    /\ trace' = Append(trace, Event("send", q, -1, Len(calls) + 1))
    /\ UNCHANGED <<req, idx, ok, fail, reply, clock, wake>>

\* part_001: ok: recipients.map(r => ({ recipient: r.email, status: "bcc_sent" }))
BulkOk(q) == [i \in 1..N(q) |-> OkEntry(recipients(q)[i], 0, "bcc_sent")]

\* The reply once the BCC call c has settled
BccReply(q, c, outcome) ==
    IF outcome = "fulfilled"
    THEN (IF Variant(q) = "server"
          THEN Response(200, Undefined, "bcc", <<>>, <<>>, -1, -1, c)
          ELSE Response(200, Undefined, "bcc_bulk", BulkOk(q), <<>>, -1, -1, c))
    ELSE ErrorResponse(500, IF Variant(q) = "server"
                            THEN "EMAIL_SEND_FAILED" ELSE "BCC_FAILED")

\* await sendMail of the BCC message returns or throws
BccReturned(q) ==
    /\ pc[q] = "awaitBcc"
    /\ calls[LastCall(q)].status = "pending"
    /\ \E outcome \in Outcomes :
          /\ calls' = [calls EXCEPT ![LastCall(q)].status = outcome]
          /\ Finish(q, BccReply(q, LastCall(q), outcome))
    /\ trace' = Append(trace, Event("settled", q, -1, LastCall(q)))
    /\ UNCHANGED <<req, idx, ok, fail, clock, startTime, wake>>

-----------------------------------------------------------------------------
(* Specification *)

Next ==
    \/ \E q \in ReqIds : ValidationError(q)
    \/ \E q \in ReqIds : ConfigurationError(q)
    \/ \E q \in ReqIds : BadRequest(q)
    \/ \E q \in ReqIds : CompileError(q)
    \/ \E q \in ReqIds : StartLoop(q)
    \/ \E q \in ReqIds : SleepDone(q)
    \/ \E q \in ReqIds : SendReturned(q)
    \/ \E q \in ReqIds : StartParallel(q)
    \/ \E q \in ReqIds : AllSettled(q)
    \/ \E q \in ReqIds : StartBcc(q)
    \/ \E q \in ReqIds : BccReturned(q)
    \/ \E c \in 1..Len(calls) : TransportSettles(c)

Spec == Init /\ [][Next]_vars

\* One request with an empty or placeholder-free html, or none, has arrived
PlainInit ==
    /\ \E r \in PlainRequests :
          req = [q \in ReqIds |-> IF q = 1 THEN r ELSE NoRequest]
    /\ pc = [q \in ReqIds |-> IF q = 1 THEN "received" ELSE "unused"]
    /\ Idle

PlainSpec == PlainInit /\ [][Next]_vars

\* Lists of up to MaxRecipients - 1 entries of one recipient
ListsOf(r) == UNION {[1..n -> {r}] : n \in 0..(MaxRecipients - 1)}

\* The first of two simultaneous requests: a delayed request to Alice
FirstBodies ==
    [recipients : ListsOf(Alice) \ {<<>>},
     template : {Opt(FALSE, Undefined)},
     html : {Opt(TRUE, HtmlSource)},
     context : {Opt(TRUE, GlobalContext)},
     individual : {Opt(TRUE, FALSE)},
     delaySeconds : {Opt(TRUE, d) : d \in DelayChoices \ {0}}]

\* The second of two simultaneous requests: any mode, to Bob, once or twice
SecondBodies ==
    [recipients : {<<>>, <<Bob>>, <<Bob, Bob>>},
     template : {Opt(FALSE, Undefined), Opt(TRUE, "welcome")},
     html : {Opt(TRUE, "")},
     context : {Opt(TRUE, GlobalContext)},
     individual : {Opt(TRUE, FALSE), Opt(TRUE, TRUE)},
     delaySeconds : {Opt(TRUE, d) : d \in DelayChoices}]

\* Two requests have arrived at the same endpoint
PairInit ==
    /\ \E v \in Variants, t \in BOOLEAN, a \in FirstBodies, b \in SecondBodies :
          req = [q \in ReqIds |->
                    [variant |-> v, configured |-> t,
                     body |-> IF q = 1 THEN a ELSE b]]
    /\ pc = [q \in ReqIds |-> "received"]
    /\ Idle

PairSpec == PairInit /\ [][Next]_vars

\* Every step of request q: of its handler, of its timer, of its transport calls
Handler(q) ==
    \/ ValidationError(q)
    \/ ConfigurationError(q)
    \/ BadRequest(q)
    \/ CompileError(q)
    \/ StartLoop(q)
    \/ SleepDone(q)
    \/ SendReturned(q)
    \/ StartParallel(q)
    \/ AllSettled(q)
    \/ StartBcc(q)
    \/ BccReturned(q)
    \/ \E c \in 1..Len(calls) : calls[c].req = q /\ TransportSettles(c)

\* The event loop runs every continuation that is ready, every timer fires and
\* every transport call settles
LiveSpec == Spec /\ \A q \in ReqIds : WF_vars(Handler(q))

-----------------------------------------------------------------------------
(* Vocabulary of the properties *)

Replied(q) == Len(reply[q]) > 0

Resp(q) == reply[q][1]

CallSet(q) == {c \in 1..Len(calls) : calls[c].req = q}

IsBcc(c) == "bcc" \in calls[c].msg.fields

IsPerRecipient(c) == "to" \in calls[c].msg.fields

\* The selection rule as the specification words it
RuleMode(ind, d) ==
    IF d > 0 THEN "individual_delayed" ELSE IF ind THEN "individual" ELSE "bcc"

\* The events of request q, in order
EventsOf(q) == SelectSeq(trace, LAMBDA e : e.req = q)

Count(seq, Test(_)) == Len(SelectSeq(seq, Test))

\* The addresses listed in a comma-separated address field
RECURSIVE Addresses(_)
Addresses(field) ==
    IF field = <<>> THEN <<>>
    ELSE LET cut == IF \E i \in 1..Len(field) : field[i] = ", "
                    THEN CHOOSE i \in 1..Len(field) :
                            /\ field[i] = ", "
                            /\ \A j \in 1..(i - 1) : field[j] # ", "
                    ELSE Len(field) + 1
             entry == SubSeq(field, 1, cut - 1)
             address == IF Len(entry) = 1 THEN entry[1] ELSE entry[4]
         IN <<address>> \o Addresses(SubSeq(field, cut + 1, Len(field)))

Emails(rs) == [i \in 1..Len(rs) |-> rs[i].email]

-----------------------------------------------------------------------------
(* C1: delivery mode *)

\* The modes a reported mode name stands for (part_001 names them differently)
Names(reported) ==
    IF reported = "bcc_bulk" THEN {"bcc"}
    ELSE IF reported = "individual_dynamic" THEN {"individual", "individual_delayed"}
    ELSE {reported}

\* C1 (as claimed): for every accepted request the dispatch is per recipient or
\* BCC, and the mode reported is, as RuleMode(individual, delaySeconds) says:
\* delaySeconds > 0 gives individual_delayed, else individual gives individual,
\* else bcc.
C1_Original ==
    \A q \in ReqIds : Accepted(q) =>
        LET mode == RuleMode(individual(q), delaySeconds(q))
        IN /\ \A c \in CallSet(q) : IsBcc(c) <=> mode = "bcc"
           /\ \A c \in CallSet(q) : IsPerRecipient(c) <=> mode # "bcc"
           /\ (Replied(q) /\ Resp(q).mode # Undefined) => mode \in Names(Resp(q).mode)

\* C1 (amended): the handler of server.js selects and reports the mode by
\* RuleMode(individual, delaySeconds); the handler of part_001 dispatches per
\* recipient (reported individual_dynamic) when individual, delaySeconds > 0 or a
\* non-empty html holds, and as one BCC message (reported bcc_bulk) otherwise.
C1_ModeIsSelected ==
    \A q \in ReqIds : Accepted(q) =>
        LET mode == IF Variant(q) = "server"
                    THEN RuleMode(individual(q), delaySeconds(q))
                    ELSE IF individual(q) \/ delaySeconds(q) > 0 \/ Truthy(html(q))
                    THEN "individual_dynamic"
                    ELSE "bcc_bulk"
            single == mode \in {"bcc", "bcc_bulk"}
        IN /\ \A c \in CallSet(q) : IsBcc(c) <=> single
           /\ \A c \in CallSet(q) : IsPerRecipient(c) <=> ~single
           /\ (Replied(q) /\ Resp(q).mode # Undefined) => Resp(q).mode = mode
           /\ (Replied(q) /\ CallSet(q) # {}) => Resp(q).mode # Undefined \/ single

\* C1 witness: a server.js request with individual = false and delaySeconds > 0
\* was sent per recipient and answered as individual_delayed
C1_Witness ==
    \E q \in ReqIds :
        /\ Variant(q) = "server" /\ Accepted(q)
        /\ ~individual(q) /\ delaySeconds(q) > 0
        /\ Replied(q) /\ Resp(q).mode = "individual_delayed"
        /\ Cardinality(CallSet(q)) = N(q) /\ N(q) >= 2
        /\ \A c \in CallSet(q) : IsPerRecipient(c) /\ ~IsBcc(c)

-----------------------------------------------------------------------------
(* C2: the single BCC message *)

\* C2 (as claimed): an accepted request with delaySeconds = 0 and individual =
\* false makes exactly one transport call, whose bcc field lists every recipient
\* once, in input order.
C2_Original ==
    \A q \in ReqIds :
        (Accepted(q) /\ delaySeconds(q) = 0 /\ ~individual(q)) =>
            /\ Cardinality(CallSet(q)) <= 1
            /\ pc[q] # "received" => Cardinality(CallSet(q)) = 1
            /\ \A c \in CallSet(q) :
                  IsBcc(c) /\ Addresses(calls[c].msg.bcc) = Emails(recipients(q))

\* C2 (amended): the same, for the handler of server.js, and for the handler of
\* part_001 when the request carries no non-empty html.
C2_SingleBccCall ==
    \A q \in ReqIds :
        (/\ Accepted(q) /\ delaySeconds(q) = 0 /\ ~individual(q)
         /\ Variant(q) = "part001" => ~Truthy(html(q))) =>
            /\ Cardinality(CallSet(q)) <= 1
            /\ pc[q] # "received" => Cardinality(CallSet(q)) = 1
            /\ \A c \in CallSet(q) :
                  /\ IsBcc(c) /\ ~IsPerRecipient(c)
                  /\ Addresses(calls[c].msg.bcc) = Emails(recipients(q))

\* C2 witness: a finished BCC request with three recipients, one of them twice
C2_Witness ==
    \E q \in ReqIds :
        /\ Accepted(q) /\ delaySeconds(q) = 0 /\ ~individual(q)
        /\ pc[q] = "done" /\ N(q) = 3
        /\ \E i, j \in 1..N(q) : recipients(q)[i] # recipients(q)[j]
        /\ \E c \in CallSet(q) : IsBcc(c)

-----------------------------------------------------------------------------
(* C3: one outcome per recipient *)

Range(seq) == {seq[i] : i \in 1..Len(seq)}

BagOf(seq) == [x \in Range(seq) |-> Cardinality({i \in 1..Len(seq) : seq[i] = x})]

\* The recipients a response reports, ok entries first
Reported(r) == [i \in 1..(Len(r.ok) + Len(r.fail)) |-> (r.ok \o r.fail)[i].recipient]

Threw(q) == {e.idx : e \in {x \in Range(trace) : x.req = q /\ x.ev = "threw"}}

\* C3 (as claimed): when an accepted request with individual = true is answered
\* with its report, it has made one transport call per recipient and every
\* recipient is in exactly one of ok and fail.
C3_Original ==
    \A q \in ReqIds :
        (Accepted(q) /\ individual(q) /\ Replied(q) /\ Resp(q).mode # Undefined) =>
            /\ Cardinality(CallSet(q)) = N(q)
            /\ Len(Resp(q).ok) + Len(Resp(q).fail) = N(q)
            /\ BagOf(Reported(Resp(q))) = BagOf(Emails(recipients(q)))

\* C3 (amended): when an accepted request with individual = true is answered with
\* the per-recipient report, every recipient is in exactly one of ok and fail, so
\* |ok| + |fail| = N, and one transport call was made for every recipient except
\* those whose html render threw, which are in fail; when compiling the html
\* throws, the answer is a single error (500 in server.js, 400 in part_001) and no
\* transport call is made.
C3_EveryRecipientReported ==
    \A q \in ReqIds :
        (Accepted(q) /\ individual(q) /\ Replied(q)) =>
            IF Resp(q).mode = Undefined
            THEN /\ Compiles(q)
                 /\ CallSet(q) = {}
                 /\ Resp(q).status = IF Variant(q) = "server" THEN 500 ELSE 400
            ELSE /\ Len(Resp(q).ok) + Len(Resp(q).fail) = N(q)
                 /\ BagOf(Reported(Resp(q))) = BagOf(Emails(recipients(q)))
                 /\ \A i \in 0..(N(q) - 1) :
                       IF i \in Threw(q)
                       THEN \A c \in CallSet(q) : calls[c].idx # i
                       ELSE Cardinality({c \in CallSet(q) : calls[c].idx = i}) = 1
                 /\ Cardinality(CallSet(q)) = N(q) - Cardinality(Threw(q))
                 /\ Len(Resp(q).ok)
                       = Cardinality({c \in CallSet(q) : calls[c].status = "fulfilled"})
                 /\ \A j \in 1..Len(Resp(q).ok) :
                       /\ Resp(q).ok[j].messageId \in CallSet(q)
                       /\ calls[Resp(q).ok[j].messageId].status = "fulfilled"

\* C3 witness: an answered request with individual = true and three recipients,
\* one sent, one rejected by the transport, one whose render threw
C3_Witness ==
    \E q \in ReqIds :
        /\ Accepted(q) /\ individual(q) /\ Replied(q) /\ N(q) = 3
        /\ Len(Resp(q).ok) = 1 /\ Len(Resp(q).fail) = 2
        /\ Cardinality(Threw(q)) = 1
        /\ \E c \in CallSet(q) : calls[c].status = "rejected"

-----------------------------------------------------------------------------
(* C4: the delayed sends are sequential *)

\* C4: the transport calls of a request with delaySeconds > 0 are issued in the
\* input order of the recipients, and only the latest of them can be in flight:
\* every earlier call has been fulfilled or rejected.
C4_DelayedIsSequential ==
    \A q \in ReqIds :
        (Accepted(q) /\ delaySeconds(q) > 0) =>
            /\ \A c, d \in CallSet(q) :
                  c < d => calls[c].idx < calls[d].idx /\ calls[c].status # "pending"
            /\ Cardinality({c \in CallSet(q) : calls[c].status = "pending"}) <= 1

\* C4 witness: the third send of a delayed request is in flight after the first
\* was rejected and the second fulfilled
C4_Witness ==
    \E q \in ReqIds :
        /\ Variant(q) = "server" /\ Accepted(q) /\ delaySeconds(q) > 0
        /\ Cardinality(CallSet(q)) = 3
        /\ \E c, d, e \in CallSet(q) :
              /\ c < d /\ d < e
              /\ calls[c].status = "rejected"
              /\ calls[d].status = "fulfilled"
              /\ calls[e].status = "pending"

-----------------------------------------------------------------------------
(* C5: the waits of a delayed request *)

\* C5: in a request with delaySeconds = d > 0, the send (or the failed render) of
\* every recipient at index i > 0 comes right after a wait of d seconds, also
\* when the send before it failed, and nothing waits before index 0; so an
\* answered request has waited exactly N - 1 times and reports at least
\* (N - 1) * d seconds.
C5_WaitBeforeEachButFirst ==
    \A q \in ReqIds :
        (Accepted(q) /\ delaySeconds(q) > 0) =>
            LET es == SelectSeq(EventsOf(q), LAMBDA e : e.ev # "settled")
                slept == Count(es, LAMBDA e : e.ev = "slept")
            IN /\ \A p \in 1..Len(es) :
                     /\ es[p].ev = "slept" => es[p].idx > 0
                     /\ (es[p].ev \in {"send", "threw"} /\ es[p].idx > 0) =>
                            /\ p > 1
                            /\ es[p - 1].ev = "slept"
                            /\ es[p - 1].idx = es[p].idx
                     /\ (es[p].ev \in {"send", "threw"} /\ es[p].idx = 0) => p = 1
               /\ clock - startTime[q] >= slept * delaySeconds(q) * 1000
               /\ (Replied(q) /\ Resp(q).mode # Undefined) =>
                     /\ slept = N(q) - 1
                     /\ Resp(q).durationSeconds >= (N(q) - 1) * delaySeconds(q)

\* C5 witness: an answered delayed request with three recipients whose first two
\* sends were rejected and which waited twice
C5_Witness ==
    \E q \in ReqIds :
        /\ Accepted(q) /\ delaySeconds(q) > 0 /\ N(q) = 3
        /\ Replied(q) /\ Resp(q).mode # Undefined
        /\ Len(Resp(q).fail) >= 2
        /\ \E c, d \in CallSet(q) :
              c < d /\ calls[c].status = "rejected" /\ calls[d].status = "rejected"
        /\ Count(EventsOf(q), LAMBDA e : e.ev = "slept") = 2
        /\ Resp(q).durationSeconds >= 2 * delaySeconds(q)

-----------------------------------------------------------------------------
(* C6: a failed send does not stop the others *)

\* The request was dispatched per recipient
PerRecipient(q) == \E c \in CallSet(q) : IsPerRecipient(c)

\* C6: when a per-recipient request in which some send was rejected has ended,
\* every recipient whose content was rendered has had its own transport call, and
\* the answer is the per-recipient report, not a single error.
C6_FailureDoesNotStopOthers ==
    \A q \in ReqIds :
        (/\ pc[q] = "done"
         /\ \E c \in CallSet(q) : IsPerRecipient(c) /\ calls[c].status = "rejected") =>
            /\ \A i \in 0..(N(q) - 1) :
                  i \in Threw(q) \/ \E c \in CallSet(q) : calls[c].idx = i
            /\ Replied(q)
            /\ Resp(q).error = Undefined
            /\ Resp(q).mode \in {"individual", "individual_delayed", "individual_dynamic"}
            /\ Len(Resp(q).fail)
                  >= Cardinality({c \in CallSet(q) : calls[c].status = "rejected"})

\* C6 witness: a delayed request ended whose first send was rejected and whose
\* third was fulfilled
C6_Witness ==
    \E q \in ReqIds :
        /\ pc[q] = "done" /\ N(q) = 3 /\ delaySeconds(q) > 0
        /\ \E c, d \in CallSet(q) :
              /\ calls[c].idx = 0 /\ calls[c].status = "rejected"
              /\ calls[d].idx = 2 /\ calls[d].status = "fulfilled"
        /\ Len(Resp(q).ok) >= 1 /\ Len(Resp(q).fail) >= 1

-----------------------------------------------------------------------------
(* C7, C8: the content of a per-recipient message *)

\* The recipient a per-recipient call was made for
Target(c) == recipients(calls[c].req)[calls[c].idx + 1]

\* C7 (as claimed): in every per-recipient message that names a template, the
\* context holds the recipient's value for every key the recipient and the
\* request's context both have, and the request's value for every key only the
\* request's context has.
C7_RecipientFieldsOverride ==
    \A c \in 1..Len(calls) :
        (IsPerRecipient(c) /\ "template" \in calls[c].msg.fields) =>
            /\ "context" \in calls[c].msg.fields
            /\ \A k \in Keys :
                  LET global == context(calls[c].req)[k]
                      own == Target(c)[k]
                  IN global # Undefined =>
                        calls[c].msg.context[k] = IF own # Undefined THEN own ELSE global

\* C8 (as claimed): in every per-recipient message of a request with html and no
\* template, the body is the html rendered against the request's context
\* overridden by the recipient's fields.
C8_HtmlRenderedOnMergedContext ==
    \A c \in 1..Len(calls) :
        (/\ IsPerRecipient(c)
         /\ Truthy(html(calls[c].req))
         /\ ~Truthy(template(calls[c].req))) =>
            /\ "html" \in calls[c].msg.fields
            /\ calls[c].msg.html =
                  Render(html(calls[c].req),
                         [k \in Keys |-> IF Target(c)[k] # Undefined THEN Target(c)[k]
                                         ELSE context(calls[c].req)[k]])

-----------------------------------------------------------------------------
(* C9: the HTTP status *)

\* C9 (as claimed): an accepted request whose mode is individual or
\* individual_delayed is answered 207 whatever its sends did; a bcc request is
\* answered 200 when its transport call is fulfilled and 500 when it is rejected.
C9_Original ==
    \A q \in ReqIds :
        (Accepted(q) /\ Replied(q) /\ CallSet(q) # {}) =>
            IF RuleMode(individual(q), delaySeconds(q)) # "bcc"
            THEN Resp(q).status = 207
            ELSE \/ Resp(q).status = 200
                    /\ \A c \in CallSet(q) : calls[c].status = "fulfilled"
                 \/ Resp(q).status = 500
                    /\ \E c \in CallSet(q) : calls[c].status = "rejected"

\* C9 (amended): in the handler of server.js an individual or individual_delayed
\* request that reaches its dispatch is answered 207 whatever the sends do, and
\* 500 without any send when compiling its html throws; in the handler of
\* part_001 a request dispatched per recipient is answered 200 whatever the sends
\* do, and 400 without any send when compiling its html throws; in both, a
\* request sent as one BCC message is answered 200 when the call is fulfilled and
\* 500 when it is rejected.
C9_StatusByMode ==
    \A q \in ReqIds :
        (Accepted(q) /\ Replied(q)) =>
            LET single == IF Variant(q) = "server"
                          THEN RuleMode(individual(q), delaySeconds(q)) = "bcc"
                          ELSE ~(individual(q) \/ delaySeconds(q) > 0 \/ Truthy(html(q)))
                report == IF Variant(q) = "server" THEN 207 ELSE 200
                thrown == IF Variant(q) = "server" THEN 500 ELSE 400
            IN IF single
               THEN /\ Cardinality(CallSet(q)) = 1
                    /\ \A c \in CallSet(q) :
                          Resp(q).status = IF calls[c].status = "fulfilled"
                                           THEN 200 ELSE 500
               ELSE /\ Resp(q).status \in {report, thrown}
                    /\ Resp(q).status = thrown => (CallSet(q) = {} /\ Truthy(html(q)))
                    /\ (CallSet(q) # {} \/ Threw(q) # {}) => Resp(q).status = report

\* C9 witness: a server.js request answered 207 after every one of its sends was
\* rejected
C9_Witness ==
    \E q \in ReqIds :
        /\ Variant(q) = "server" /\ Accepted(q) /\ Replied(q) /\ N(q) >= 2
        /\ Cardinality(CallSet(q)) = N(q)
        /\ \A c \in CallSet(q) : IsPerRecipient(c) /\ calls[c].status = "rejected"
        /\ Resp(q).status = 207

-----------------------------------------------------------------------------
(* C10: the order of the ok and fail lists *)

SettledAt(c) ==
    CHOOSE p \in 1..Len(trace) : trace[p].ev = "settled" /\ trace[p].call = c

\* C10 (as claimed): in the concurrent individual mode of server.js the entries
\* of the ok list are in the order in which their sends completed.
C10_Original ==
    \A q \in ReqIds :
        (/\ Variant(q) = "server" /\ Replied(q)
         /\ Resp(q).mode = "individual") =>
            \A j, k \in 1..Len(Resp(q).ok) :
                j < k => SettledAt(Resp(q).ok[j].messageId)
                            < SettledAt(Resp(q).ok[k].messageId)

\* The indices in set S, ascending
RECURSIVE Ascending(_)
Ascending(S) ==
    IF S = {} THEN <<>>
    ELSE LET m == CHOOSE x \in S : \A y \in S : x <= y
         IN <<m>> \o Ascending(S \ {m})

\* C10 (amended): in the concurrent individual mode, as in the delayed mode, the
\* ok list and the fail list follow the input order of the recipients, whatever
\* the order in which the sends completed.
C10_ListsFollowInputOrder ==
    \A q \in ReqIds :
        (Replied(q) /\ Resp(q).mode
                          \in {"individual", "individual_delayed", "individual_dynamic"}) =>
            LET won == Ascending({i \in 0..(N(q) - 1) :
                          \E c \in CallSet(q) :
                              calls[c].idx = i /\ calls[c].status = "fulfilled"})
                lost == Ascending({i \in 0..(N(q) - 1) :
                          \/ i \in Threw(q)
                          \/ \E c \in CallSet(q) :
                                calls[c].idx = i /\ calls[c].status = "rejected"})
            IN /\ Len(Resp(q).ok) = Len(won)
               /\ \A j \in 1..Len(won) :
                     /\ Resp(q).ok[j].recipient = recipients(q)[won[j] + 1].email
                     /\ calls[Resp(q).ok[j].messageId].idx = won[j]
               /\ Len(Resp(q).fail) = Len(lost)
               /\ \A j \in 1..Len(lost) :
                     Resp(q).fail[j].recipient = recipients(q)[lost[j] + 1].email

\* C10 witness: a concurrent individual request answered with the ok list in
\* input order although the send to the second recipient completed first
C10_Witness ==
    \E q \in ReqIds :
        /\ Variant(q) = "server" /\ Replied(q) /\ Resp(q).mode = "individual"
        /\ Len(Resp(q).ok) >= 2
        /\ Resp(q).ok[1].recipient # Resp(q).ok[2].recipient
        /\ SettledAt(Resp(q).ok[2].messageId) < SettledAt(Resp(q).ok[1].messageId)
        /\ calls[Resp(q).ok[1].messageId].idx < calls[Resp(q).ok[2].messageId].idx

-----------------------------------------------------------------------------
(* C11: an endpoint without credentials *)

Arrived(q) == pc[q] # "unused"

ConfigurationErrors == {"CONFIGURATION_ERROR", "CONFIG_ERROR"}

\* C11 (as claimed): every request to an endpoint whose transporter is null,
\* whatever its body, makes no transport call and is answered 500 with the
\* configuration error.
C11_Original ==
    \A q \in ReqIds :
        (Arrived(q) /\ ~req[q].configured) =>
            /\ CallSet(q) = {}
            /\ Replied(q) =>
                  Resp(q).status = 500 /\ Resp(q).error \in ConfigurationErrors

\* C11 (amended): a request to an endpoint whose transporter is null makes no
\* transport call, renders nothing and is answered once; when its body passes the
\* route's schema the answer is 500 with the configuration error, also when the
\* body has no usable content, and when its body fails the schema the framework
\* answers 400 before the handler runs.
C11_ConfigurationErrorFirst ==
    \A q \in ReqIds :
        (Arrived(q) /\ ~req[q].configured) =>
            /\ CallSet(q) = {}
            /\ EventsOf(q) = <<>>
            /\ pc[q] \in {"received", "done"}
            /\ Len(reply[q]) = IF pc[q] = "done" THEN 1 ELSE 0
            /\ Replied(q) =>
                  IF N(q) >= 1 /\ (Variant(q) = "server" =>
                                     req[q].body.template.has \/ req[q].body.html.has)
                  THEN Resp(q).status = 500 /\ Resp(q).error \in ConfigurationErrors
                  ELSE Resp(q).status = 400 /\ Resp(q).error = "FST_ERR_VALIDATION"

\* C11 witness: a request with an empty html and a delay, sent to an endpoint of
\* server.js without credentials, was answered 500 with the configuration error
C11_Witness ==
    \E q \in ReqIds :
        /\ Variant(q) = "server" /\ ~req[q].configured
        /\ N(q) >= 2 /\ delaySeconds(q) > 0
        /\ html(q) = "" /\ ~Truthy(template(q))
        /\ Replied(q) /\ Resp(q).status = 500
        /\ Resp(q).error = "CONFIGURATION_ERROR"
        /\ CallSet(q) = {}

-----------------------------------------------------------------------------
(* C12: a request without content *)

NoContent(q) == ~Truthy(template(q)) /\ ~Truthy(html(q))

\* C12 (as claimed): a request to a configured endpoint that carries neither a
\* template nor html makes no transport call and is answered 400.
C12_Original ==
    \A q \in ReqIds :
        (/\ Arrived(q) /\ req[q].configured
         /\ ~req[q].body.template.has /\ ~req[q].body.html.has) =>
            /\ CallSet(q) = {}
            /\ Replied(q) => Resp(q).status = 400

\* C12 (amended): in server.js a request to a configured endpoint with neither a
\* non-empty template nor a non-empty html makes no transport call, renders
\* nothing and is answered 400, whatever individual and delaySeconds are: by the
\* schema when both fields are absent, by the handler otherwise.  In part_001
\* such a request with at least one recipient is sent: per recipient with the
\* text "No content provided.", or as one BCC message without content.
C12_NoContentRejected ==
    \A q \in ReqIds :
        (Arrived(q) /\ req[q].configured /\ NoContent(q)) =>
            IF Variant(q) = "server"
            THEN /\ CallSet(q) = {}
                 /\ EventsOf(q) = <<>>
                 /\ pc[q] \in {"received", "done"}
                 /\ Replied(q) =>
                       /\ Resp(q).status = 400
                       /\ Resp(q).error =
                             IF req[q].body.template.has \/ req[q].body.html.has
                             THEN IF N(q) >= 1 THEN "BAD_REQUEST"
                                  ELSE "FST_ERR_VALIDATION"
                             ELSE "FST_ERR_VALIDATION"
            ELSE /\ (N(q) >= 1 /\ pc[q] # "received") => CallSet(q) # {}
                 /\ \A c \in CallSet(q) :
                       /\ ~Truthy(calls[c].msg.template)
                       /\ calls[c].msg.html \in {<<>>, <<"">>}
                       /\ IsPerRecipient(c) =>
                             calls[c].msg.text = "No content provided."
                 /\ (Replied(q) /\ N(q) >= 1) => Resp(q).status \in {200, 500}

\* C12 witness: a server.js request with an empty html, individual = true and a
\* delay was answered 400 by the handler without any send
C12_Witness ==
    \E q \in ReqIds :
        /\ Variant(q) = "server" /\ req[q].configured /\ NoContent(q)
        /\ individual(q) /\ delaySeconds(q) > 0 /\ N(q) >= 2
        /\ Replied(q) /\ Resp(q).status = 400 /\ Resp(q).error = "BAD_REQUEST"
        /\ CallSet(q) = {} /\ EventsOf(q) = <<>>

-----------------------------------------------------------------------------
(* C13: an empty recipients list *)

Dispatched(q) == pc[q] \in {"sleeping", "sending", "awaitAll", "awaitBcc"}

\* C13: a request whose recipients list is empty makes no transport call, renders
\* nothing and is answered 400 by the validation of the body; so every request
\* that is being dispatched, every transport call and every report belongs to a
\* request with at least one recipient.
C13_EmptyRecipientsRejected ==
    /\ \A q \in ReqIds :
          (Arrived(q) /\ N(q) = 0) =>
              /\ CallSet(q) = {}
              /\ EventsOf(q) = <<>>
              /\ pc[q] \in {"received", "done"}
              /\ ok[q] = <<>> /\ fail[q] = <<>>
              /\ Replied(q) =>
                    /\ Resp(q).status = 400
                    /\ Resp(q).error = "FST_ERR_VALIDATION"
                    /\ Resp(q).mode = Undefined
    /\ \A q \in ReqIds : Dispatched(q) => N(q) >= 1
    /\ \A c \in 1..Len(calls) :
          /\ N(calls[c].req) >= 1
          /\ IsBcc(c) => calls[c].msg.bcc # <<>>
    /\ \A q \in ReqIds : (Replied(q) /\ Resp(q).mode # Undefined) => N(q) >= 1

\* C13 witness: a request with content, individual = true and no recipient, sent
\* to a configured endpoint, was answered 400 without any send
C13_Witness ==
    \E q \in ReqIds :
        /\ req[q].configured /\ N(q) = 0
        /\ Truthy(template(q)) /\ individual(q)
        /\ Replied(q) /\ Resp(q).status = 400 /\ pc[q] = "done"
        /\ CallSet(q) = {}

-----------------------------------------------------------------------------
(* C14: render failures *)

\* The handler sends request q per recipient
PerRecipientMode(q) ==
    IF Variant(q) = "server" THEN SelectMode(q) # "bcc"
    ELSE DynamicMode(q) = "individual_dynamic"

\* C14 (as claimed): when an accepted request sent per recipient has ended, it
\* was answered with the per-recipient report and not with a single error, every
\* recipient whose render threw is in the fail list, and every other recipient
\* has had its transport call; a BCC request whose message could not be rendered
\* or sent is answered with a single error.
C14_RenderFailurePerRecipient ==
    \A q \in ReqIds :
        (Accepted(q) /\ pc[q] = "done") =>
            IF PerRecipientMode(q)
            THEN /\ Resp(q).mode # Undefined
                 /\ Resp(q).error = Undefined
                 /\ \A i \in Threw(q) :
                       \E j \in 1..Len(Resp(q).fail) :
                           Resp(q).fail[j].recipient = recipients(q)[i + 1].email
                 /\ \A i \in 0..(N(q) - 1) :
                       i \in Threw(q) \/ \E c \in CallSet(q) : calls[c].idx = i
            ELSE (\E c \in CallSet(q) : calls[c].status = "rejected") =>
                     /\ Resp(q).status = 500
                     /\ Resp(q).error # Undefined
                     /\ Resp(q).ok = <<>>

-----------------------------------------------------------------------------
(* C15: transport failures are visible *)

\* The calls of request q that the transport rejected, in call order
Lost(q) == SelectSeq(CallIds(q), LAMBDA c : calls[c].status = "rejected")

\* The fail entries of a response that stand for a rejected send
TransportFailures(r) == SelectSeq(r.fail, LAMBDA f : f.error = "smtp")

\* C15: when a request has been answered, every rejected per-recipient call has
\* its own fail entry, naming the recipient of the call and carrying the
\* transport's error message, and no ok entry stands for a rejected call; a
\* rejected BCC call is answered with the single 500 error and no ok entry.
C15_TransportFailureVisible ==
    \A q \in ReqIds :
        (Replied(q) /\ Lost(q) # <<>>) =>
            IF \A c \in CallSet(q) : IsPerRecipient(c)
            THEN /\ Resp(q).mode # Undefined
                 /\ Len(TransportFailures(Resp(q))) = Len(Lost(q))
                 /\ \A j \in 1..Len(Lost(q)) :
                       /\ TransportFailures(Resp(q))[j].recipient
                             = Target(Lost(q)[j]).email
                       /\ TransportFailures(Resp(q))[j].error = "smtp"
                 /\ \A j \in 1..Len(Resp(q).ok) :
                       calls[Resp(q).ok[j].messageId].status = "fulfilled"
                 /\ Resp(q).totalSent \in {-1, Len(Resp(q).ok)}
                 /\ Len(Resp(q).ok) = Cardinality(CallSet(q)) - Len(Lost(q))
            ELSE /\ Cardinality(CallSet(q)) = 1
                 /\ Resp(q).status = 500
                 /\ Resp(q).error \in {"EMAIL_SEND_FAILED", "BCC_FAILED"}
                 /\ Resp(q).mode = Undefined
                 /\ Resp(q).ok = <<>>

\* C15 witness: a concurrent individual request to one recipient three times was
\* answered after its first and third sends were rejected and its second fulfilled
C15_Witness ==
    \E q \in ReqIds :
        /\ Variant(q) = "server" /\ Replied(q) /\ Resp(q).mode = "individual"
        /\ N(q) = 3 /\ Len(Lost(q)) = 2
        /\ recipients(q)[1] = recipients(q)[2] /\ recipients(q)[2] = recipients(q)[3]
        /\ calls[Lost(q)[1]].idx = 0 /\ calls[Lost(q)[2]].idx = 2
        /\ Len(Resp(q).ok) = 1 /\ Len(Resp(q).fail) = 2

-----------------------------------------------------------------------------
(* C16: no retries *)

\* The calls of request q made for the recipient at index i
CallsFor(q, i) == {c \in CallSet(q) : calls[c].idx = i}

\* C16: within one request at most one transport call is made for each entry of
\* recipients when the request is sent per recipient, and at most one call in
\* all when it is sent as a BCC message, whether or not calls were rejected; so a
\* request never makes more than N calls.
C16_NoRetry ==
    \A q \in ReqIds :
        /\ \A c \in CallSet(q) :
              IF IsBcc(c) THEN calls[c].idx = -1 /\ CallSet(q) = {c}
              ELSE calls[c].idx \in 0..(N(q) - 1) /\ CallsFor(q, calls[c].idx) = {c}
        /\ Cardinality(CallSet(q)) <= N(q)

\* C16 witness: a delayed request ended after every one of its three sends was
\* rejected, with three calls made
C16_Witness ==
    \E q \in ReqIds :
        /\ pc[q] = "done" /\ N(q) = 3 /\ delaySeconds(q) > 0
        /\ Cardinality(CallSet(q)) = 3 /\ Len(Lost(q)) = 3
        /\ \A i \in 0..2 : Cardinality(CallsFor(q, i)) = 1

-----------------------------------------------------------------------------
(* C17: the content of a BCC message *)

\* C17: the BCC message of a request is its only transport call, is addressed
\* through bcc alone, and carries the request's own content: with a template, the
\* request's context with no recipient field merged in, and with html, the html
\* text as the request gave it; so every recipient gets the same content.
C17_BccContentIsGlobal ==
    \A c \in 1..Len(calls) :
        IsBcc(c) =>
            LET q == calls[c].req
                m == calls[c].msg
            IN /\ CallSet(q) = {c}
               /\ ~IsPerRecipient(c) /\ m.to = <<>>
               /\ "template" \in m.fields =>
                     /\ m.template = template(q)
                     /\ "context" \in m.fields
               /\ "context" \in m.fields =>
                     \A k \in Keys :
                         m.context[k] = IF req[q].body.context.has
                                        THEN req[q].body.context.v[k] ELSE Undefined
               /\ "html" \in m.fields => m.html = <<req[q].body.html.v>>
               /\ Variant(q) = "server" =>
                     ("template" \in m.fields) # ("html" \in m.fields)

\* C17 witness: the BCC message of a request with a template and a context that
\* names "Team" went to a list holding Bob, with the name still "Team"
C17_Witness ==
    \E c \in 1..Len(calls) :
        /\ IsBcc(c) /\ calls[c].status = "fulfilled"
        /\ "template" \in calls[c].msg.fields
        /\ req[calls[c].req].body.context.has
        /\ \E i \in 1..N(calls[c].req) : recipients(calls[c].req)[i] = Bob
        /\ calls[c].msg.context.name = "Team"
        /\ Replied(calls[c].req)

-----------------------------------------------------------------------------
(* C18: the concurrent fan-out *)

InFlight(q) == {c \in CallSet(q) : calls[c].status = "pending"}

\* C18 (as claimed): once an accepted request with individual = true and
\* delaySeconds = 0 has made a transport call, it has made all N of them, none
\* waiting for another, and it is answered only when none is in flight.
C18_Original ==
    \A q \in ReqIds :
        (Accepted(q) /\ individual(q) /\ delaySeconds(q) = 0 /\ CallSet(q) # {}) =>
            /\ Cardinality(CallSet(q)) = N(q)
            /\ Replied(q) => InFlight(q) = {}

\* C18 (amended): in server.js a request with individual = true and delaySeconds
\* = 0 hands the messages of all N recipients to the transport in one step, in
\* input order, before any of them has settled, and is answered, with the
\* individual report, only when all N have been fulfilled or rejected; when
\* compiling its html throws it makes no call at all.  In part_001 such a request
\* is sent sequentially: a call is made only when the call before it has settled,
\* and the answer follows the last one.
C18_FanOutThenCollect ==
    \A q \in ReqIds :
        (Accepted(q) /\ individual(q) /\ delaySeconds(q) = 0) =>
            /\ Replied(q) => InFlight(q) = {}
            /\ (Replied(q) /\ Resp(q).mode # Undefined) =>
                  Len(Resp(q).ok) + Len(Resp(q).fail) = N(q)
            /\ IF Variant(q) = "server"
               THEN /\ CallSet(q) # {} => Cardinality(CallSet(q)) = N(q)
                    /\ \A i \in 1..Len(CallIds(q)) : calls[CallIds(q)[i]].idx = i - 1
                    /\ \A p \in 1..Len(EventsOf(q)) :
                          p <= N(q) => /\ EventsOf(q)[p].ev = "send"
                                       /\ EventsOf(q)[p].idx = p - 1
                    /\ pc[q] = "awaitAll" <=> (CallSet(q) # {} /\ ~Replied(q))
                    /\ (Replied(q) /\ CallSet(q) # {}) => Resp(q).mode = "individual"
               ELSE /\ Cardinality(InFlight(q)) <= 1
                    /\ \A c, d \in CallSet(q) :
                          c < d => /\ calls[c].status # "pending"
                                   /\ calls[c].idx < calls[d].idx

\* C18 witness: the three sends of a concurrent individual request are in flight
\* together
C18_Witness ==
    \E q \in ReqIds :
        /\ Variant(q) = "server" /\ Accepted(q)
        /\ individual(q) /\ delaySeconds(q) = 0
        /\ N(q) = 3 /\ Cardinality(InFlight(q)) = 3
        /\ ~Replied(q)

-----------------------------------------------------------------------------
(* C19: defaults *)

OmitsFlags(q) == ~req[q].body.individual.has /\ ~req[q].body.delaySeconds.has

\* C19 (as claimed): an accepted request that omits individual and delaySeconds
\* is sent as one BCC message and, when the call is fulfilled, answered in bcc
\* mode; the message of a request that omits context carries no context value
\* of the request.
C19_Original ==
    \A q \in ReqIds :
        (Accepted(q) /\ OmitsFlags(q)) =>
            /\ \A c \in CallSet(q) : IsBcc(c) /\ CallSet(q) = {c}
            /\ (Replied(q) /\ Resp(q).mode # Undefined) =>
                  Resp(q).mode \in {"bcc", "bcc_bulk"}

\* C19 (amended): a request that omits delaySeconds is never made to wait, and a
\* request that omits context is sent with the empty mapping, so a message holds
\* no value but the recipient's own; a request that omits individual and
\* delaySeconds is sent by server.js as one BCC message (individual = false) and
\* by part_001 per recipient (individual = true).
C19_DefaultsApplied ==
    \A q \in ReqIds :
        Accepted(q) =>
            /\ ~req[q].body.delaySeconds.has =>
                  /\ \A p \in 1..Len(EventsOf(q)) : EventsOf(q)[p].ev # "slept"
                  /\ pc[q] # "sleeping"
            /\ ~req[q].body.context.has =>
                  \A c \in CallSet(q) :
                      /\ \A k \in Keys :
                            calls[c].msg.context[k]
                                \in {Undefined} \cup (IF IsPerRecipient(c)
                                                     THEN {Target(c)[k]} ELSE {})
                      /\ (IsPerRecipient(c) /\ calls[c].msg.html # <<>>) =>
                            calls[c].msg.html \in {Render(html(q), Target(c)),
                                                   <<html(q)>>}
            /\ OmitsFlags(q) =>
                  IF Variant(q) = "server"
                  THEN /\ \A c \in CallSet(q) : IsBcc(c) /\ CallSet(q) = {c}
                       /\ pc[q] \in {"received", "awaitBcc", "done"}
                       /\ Replied(q) =>
                             /\ CallSet(q) # {}
                             /\ Resp(q).mode \in {"bcc", Undefined}
                             /\ Resp(q).mode = Undefined => Lost(q) # <<>>
                  ELSE /\ \A c \in CallSet(q) : IsPerRecipient(c) /\ ~IsBcc(c)
                       /\ pc[q] \in {"received", "sending", "done"}
                       /\ (Replied(q) /\ Resp(q).mode # Undefined) =>
                             Resp(q).mode = "individual_dynamic"

\* C19 witness: a server.js request with a template and three recipients that
\* omits individual, delaySeconds and context was sent as one BCC message with an
\* empty context and answered in bcc mode
C19_Witness ==
    \E q \in ReqIds :
        /\ Variant(q) = "server" /\ Accepted(q) /\ OmitsFlags(q)
        /\ ~req[q].body.context.has /\ Truthy(template(q)) /\ N(q) = 3
        /\ Replied(q) /\ Resp(q).mode = "bcc" /\ Resp(q).status = 200
        /\ \E c \in CallSet(q) :
              IsBcc(c) /\ \A k \in Keys : calls[c].msg.context[k] = Undefined

-----------------------------------------------------------------------------
(* C20: template and html together *)

\* C20: every message of a request that supplies a non-empty template together
\* with an html names the template, with a context, and carries no html body and
\* no fallback text, whether it goes to one recipient or to the BCC list.
C20_TemplateTakesPrecedence ==
    \A c \in 1..Len(calls) :
        LET q == calls[c].req
            m == calls[c].msg
        IN (Truthy(template(q)) /\ req[q].body.html.has) =>
              /\ "template" \in m.fields /\ m.template = template(q)
              /\ "context" \in m.fields
              /\ "text" \notin m.fields /\ m.text = Undefined
              /\ m.html \in {<<>>, <<"">>}
              /\ Truthy(html(q)) => ("html" \notin m.fields /\ m.html = <<>>)

\* C20 witness: a delayed request of server.js with both a template and a
\* non-empty html had a message fulfilled that names the template and has no
\* html body
C20_Witness ==
    \E c \in 1..Len(calls) :
        /\ Variant(calls[c].req) = "server"
        /\ Truthy(template(calls[c].req)) /\ Truthy(html(calls[c].req))
        /\ delaySeconds(calls[c].req) > 0
        /\ calls[c].idx = 1 /\ calls[c].status = "fulfilled"
        /\ "template" \in calls[c].msg.fields /\ "html" \notin calls[c].msg.fields

-----------------------------------------------------------------------------
(* C21: no address is exposed *)

\* The header fields of a message that every receiver of it can read
VisibleFields == {"to", "cc"}

\* C21: the BCC message of a request lists the recipients in its bcc field only
\* and has no to or cc field; every per-recipient message has exactly one
\* address in its to field, the address of the recipient it was made for, and no
\* bcc or cc field.
C21_NoAddressExposed ==
    \A c \in 1..Len(calls) :
        LET q == calls[c].req
            m == calls[c].msg
        IN /\ "cc" \notin m.fields
           /\ IsBcc(c) # IsPerRecipient(c)
           /\ IsBcc(c) =>
                 /\ m.fields \cap VisibleFields = {}
                 /\ m.to = <<>>
                 /\ Addresses(m.bcc) = Emails(recipients(q))
           /\ IsPerRecipient(c) =>
                 /\ m.bcc = <<>>
                 /\ Addresses(m.to) = <<Target(c).email>>
                 /\ \A i \in 1..N(q) :
                       recipients(q)[i].email # Target(c).email =>
                           \A p \in 1..Len(m.to) : m.to[p] # recipients(q)[i].email

\* C21 witness: the three messages of a concurrent individual request to Alice,
\* Bob and Alice are in flight, each addressed to its own recipient alone
C21_Witness ==
    \E q \in ReqIds :
        /\ Variant(q) = "server" /\ pc[q] = "awaitAll" /\ N(q) = 3
        /\ recipients(q) = <<Alice, Bob, Alice>>
        /\ Cardinality(CallSet(q)) = 3
        /\ \A c \in CallSet(q) :
              /\ IsPerRecipient(c)
              /\ Addresses(calls[c].msg.to) = <<recipients(q)[calls[c].idx + 1].email>>

-----------------------------------------------------------------------------
(* C22: every accepted request is answered *)

\* C22: when every transport call settles and every wait ends, a request that
\* passed the schema, the transporter check and the content check is eventually
\* answered, whatever its mode and whichever of its renders and sends fail; a
\* request is never answered twice, and an answer given is never changed.
C22_RunsToCompletion ==
    /\ <>(\A q \in ReqIds :
             (Arrived(q) /\ Accepted(q)) => (pc[q] = "done" /\ Len(reply[q]) = 1))
    /\ [](\A q \in ReqIds : Len(reply[q]) <= 1)
    /\ [][\A q \in ReqIds : Replied(q) => reply'[q] = reply[q] /\ pc'[q] = "done"]_vars

\* C22 witness: a delayed request with three recipients was answered once after
\* a render threw, a send was rejected and a send was fulfilled
C22_Witness ==
    \E q \in ReqIds :
        /\ Accepted(q) /\ delaySeconds(q) > 0 /\ N(q) = 3
        /\ pc[q] = "done" /\ Len(reply[q]) = 1
        /\ Cardinality(Threw(q)) = 1 /\ Len(Lost(q)) = 1
        /\ Len(Resp(q).ok) = 1

-----------------------------------------------------------------------------
(* C23: an html forces per-recipient dispatch in part_001 *)

\* C23 (as claimed): a part_001 request with individual = false and delaySeconds
\* = 0 whose body has an html, be it empty, never makes a BCC call.
C23_Original ==
    \A q \in ReqIds :
        (/\ Variant(q) = "part001" /\ Accepted(q)
         /\ ~individual(q) /\ delaySeconds(q) = 0
         /\ req[q].body.html.has) =>
            \A c \in CallSet(q) : ~IsBcc(c)

\* C23 (amended): a part_001 request with individual = false and delaySeconds =
\* 0 is sent per recipient, and answered as individual_dynamic, when its html is
\* not empty, with or without placeholders and with or without a template; it is
\* sent as one BCC message when its html is empty or absent.
C23_HtmlForcesPerRecipient ==
    \A q \in ReqIds :
        (/\ Variant(q) = "part001" /\ Accepted(q)
         /\ ~individual(q) /\ delaySeconds(q) = 0) =>
            IF req[q].body.html.has /\ req[q].body.html.v # ""
            THEN /\ \A c \in CallSet(q) : IsPerRecipient(c) /\ ~IsBcc(c)
                 /\ pc[q] \in {"received", "sending", "done"}
                 /\ (Replied(q) /\ Resp(q).error = Undefined) =>
                       /\ Resp(q).mode = "individual_dynamic"
                       /\ Len(Resp(q).ok) + Len(Resp(q).fail) = N(q)
            ELSE /\ \A c \in CallSet(q) : IsBcc(c) /\ CallSet(q) = {c}
                 /\ pc[q] \in {"received", "awaitBcc", "done"}
                 /\ (Replied(q) /\ Resp(q).error = Undefined) =>
                       Resp(q).mode = "bcc_bulk"

\* C23 witness: a part_001 request with individual = false, no delay, no
\* template and an html without placeholders was sent per recipient, two
\* messages with the html as their body, and answered as individual_dynamic
C23_Witness ==
    \E q \in ReqIds :
        /\ Variant(q) = "part001" /\ Accepted(q)
        /\ req[q].body.individual.has /\ ~individual(q) /\ delaySeconds(q) = 0
        /\ html(q) = PlainHtml /\ ~Truthy(template(q)) /\ N(q) = 2
        /\ Replied(q) /\ Resp(q).mode = "individual_dynamic"
        /\ Cardinality(CallSet(q)) = 2
        /\ \A c \in CallSet(q) : IsPerRecipient(c) /\ calls[c].msg.html = <<PlainHtml>>

-----------------------------------------------------------------------------
(* C24: attribution in the concurrent mode *)

\* The calls of request q that the transport fulfilled, in call order
Won(q) == SelectSeq(CallIds(q), LAMBDA c : calls[c].status = "fulfilled")

\* C24: in the report of a concurrent individual request, whatever the order in
\* which the sends settled, the ok entries stand one to one for the fulfilled
\* calls, each naming the recipient its call was made for and carrying the
\* messageId of that call, and the fail entries stand one to one for the
\* rejected calls, each naming the recipient its call was made for; so an
\* address is in fail exactly when a call made for it was rejected.
C24_OutcomeAttributed ==
    \A q \in ReqIds :
        (Replied(q) /\ Resp(q).mode = "individual") =>
            /\ Len(Resp(q).ok) = Len(Won(q))
            /\ \A j \in 1..Len(Won(q)) :
                  /\ Resp(q).ok[j].messageId = Won(q)[j]
                  /\ Resp(q).ok[j].recipient = Target(Won(q)[j]).email
            /\ Len(Resp(q).fail) = Len(Lost(q))
            /\ \A j \in 1..Len(Lost(q)) :
                  Resp(q).fail[j].recipient = Target(Lost(q)[j]).email
            /\ \A i \in 1..N(q) :
                  /\ (\E j \in 1..Len(Resp(q).fail) :
                          Resp(q).fail[j].recipient = recipients(q)[i].email)
                       <=> (\E c \in CallSet(q) :
                              /\ Target(c).email = recipients(q)[i].email
                              /\ calls[c].status = "rejected")
                  /\ (\E j \in 1..Len(Resp(q).ok) :
                          Resp(q).ok[j].recipient = recipients(q)[i].email)
                       <=> (\E c \in CallSet(q) :
                              /\ Target(c).email = recipients(q)[i].email
                              /\ calls[c].status = "fulfilled")

\* C24 witness: a concurrent individual request to Alice, Bob and Alice whose
\* third send settled first and was fulfilled, whose first send settled last and
\* was rejected, answered with Bob and Alice in ok
C24_Witness ==
    \E q \in ReqIds :
        /\ Replied(q) /\ Resp(q).mode = "individual"
        /\ recipients(q) = <<Alice, Bob, Alice>>
        /\ Len(Lost(q)) = 1 /\ calls[Lost(q)[1]].idx = 0
        /\ SettledAt(Won(q)[2]) < SettledAt(Won(q)[1])
        /\ SettledAt(Won(q)[1]) < SettledAt(Lost(q)[1])
        /\ Resp(q).ok[1].recipient = Bob.email
        /\ Resp(q).ok[2].recipient = Alice.email

-----------------------------------------------------------------------------
(* C25: two requests at once *)

\* The entries of the local ok and fail arrays of request q
LocalEntries(q) == Range(ok[q]) \cup Range(fail[q])

\* C25: while two requests are handled at once on one endpoint, in every
\* interleaving, the ok and fail arrays of a request hold entries of its own
\* recipients only, every ok entry carries the messageId of a call of the same
\* request, a per-recipient report lists exactly the recipients of its request,
\* every message goes to recipients of its own request, and the sends of a
\* delayed request are made in input order, one at a time, whatever the other
\* request does meanwhile.
C25_RequestsDoNotMix ==
    \A q \in ReqIds :
        /\ \A e \in LocalEntries(q) : e.recipient \in Range(Emails(recipients(q)))
        /\ \A j \in 1..Len(ok[q]) : ok[q][j].messageId \in CallSet(q) \cup {0}
        /\ Len(ok[q]) + Len(fail[q]) <= N(q)
        /\ (Replied(q) /\ Resp(q).mode # Undefined) =>
              /\ \A j \in 1..Len(Resp(q).ok) :
                    Resp(q).ok[j].messageId \in CallSet(q) \cup {0}
              /\ Resp(q).mode # "bcc" =>
                    BagOf(Reported(Resp(q))) = BagOf(Emails(recipients(q)))
        /\ \A c \in CallSet(q) :
              Range(Addresses(calls[c].msg.to \o calls[c].msg.bcc))
                  \subseteq Range(Emails(recipients(q)))
        /\ (Accepted(q) /\ delaySeconds(q) > 0) =>
              /\ Cardinality(InFlight(q)) <= 1
              /\ \A c, d \in CallSet(q) :
                    c < d => /\ calls[c].idx < calls[d].idx
                             /\ calls[c].status # "pending"
              /\ LET es == SelectSeq(EventsOf(q), LAMBDA e : e.ev # "settled")
                 IN \A p \in 1..Len(es) :
                       (es[p].ev \in {"send", "threw"} /\ es[p].idx > 0) =>
                           es[p - 1].ev = "slept" /\ es[p - 1].idx = es[p].idx

\* C25 witness: a delayed request to Alice and a delayed request to Bob have both
\* been answered with their reports, each with a fulfilled send, after the
\* second request made a send while the first was in its wait
C25_Witness ==
    /\ \A q \in ReqIds :
          /\ Replied(q) /\ Resp(q).mode # Undefined /\ delaySeconds(q) > 0
          /\ N(q) = 2 /\ Len(Resp(q).ok) >= 1
    /\ \E p1, p2, p3 \in 1..Len(trace) :
          /\ p1 < p2 /\ p2 < p3
          /\ trace[p1].req = 1 /\ trace[p1].ev = "settled" /\ trace[p1].idx = 0
          /\ trace[p2].req = 2 /\ trace[p2].ev = "send"
          /\ trace[p3].req = 1 /\ trace[p3].ev = "slept" /\ trace[p3].idx = 1

====
